---- MODULE Spec2Model ----
(***************************************************************************)
(* Model of utils/utils.py of Orpheus: the FLAC checksum utilities         *)
(* (calculate_unencoded_md5, fix_flac_md5_signature,                       *)
(* set_flac_md5_signature), the downloader (download_file, silentremove)   *)
(* and the temporary settings store (read_temporary_setting,               *)
(* set_temporary_setting).                                                 *)
(*                                                                         *)
(* A hex string is a sequence of character codes:                          *)
(*   0..15  the lowercase hex digits '0'..'9', 'a'..'f'                    *)
(*   16..21 the uppercase hex digits 'A'..'F'                              *)
(*   22     an ASCII space                                                 *)
(*   23     a character that is no hex digit ('g')                         *)
(* A Python int (the 128-bit md5_signature) is the sequence of its base-16 *)
(* digits, most significant first, without leading zeros; <<>> is 0.       *)
(***************************************************************************)
EXTENDS Integers, Sequences, FiniteSets, TLC

VARIABLES
    \* ---- the FLAC file and the checksum utilities
    stored,        \* md5_signature in the STREAMINFO block of the file on disk
    flacValid,     \* whether mutagen's FLAC(file_path) can parse the file
    bits,          \* flac_file.info.bits_per_sample
    fpc,           \* position of the running checksum call
    fop,           \* the running / last call: "none", "set", "fix", "calc"
    hashArg,       \* md5_hash argument of set_flac_md5_signature
    storedBefore,  \* stored checksum when the call began
    tempExists,    \* whether the temporary file exists on disk
    attempts,      \* iterations of the cleanup loop begun in this call
    permErrs,      \* PermissionErrors os.unlink raised in this call
    pend,          \* outcome the try body produced, delivered after cleanup
    trace,         \* what the call did: temp file, transcoder, writer, save
    fres,          \* outcome of the last finished checksum call
    \* ---- the downloader
    dest,          \* the destination file: [exists, content]
    dpc,           \* position of the running download_file call
    dargs,         \* arguments of the running / last download_file call
    body,          \* chunks of the response body not yet written
    dlog,          \* what the call did: request issued, file opened, resize
    interrupted,   \* a KeyboardInterrupt was delivered during the call
    dres,          \* outcome of the last finished download_file call
    stale,         \* history: a call failed after opening the destination,
                   \* and the content it left there
    \* ---- the temporary settings store
    blob,          \* the pickled settings on disk: module -> module_settings
    sres           \* the last settings call and its outcome

flacVars == <<stored, flacValid, bits, fpc, fop, hashArg, storedBefore,
              tempExists, attempts, permErrs, pend, trace, fres>>
dlVars == <<dest, dpc, dargs, body, dlog, interrupted, dres, stale>>
setVars == <<blob, sres>>
vars == <<flacVars, dlVars, setVars>>

----------------------------------------------------------------------------
(* Bounds and program constants *)

HexLen == 32
FormatWidth == 32
MaxAttempts == 3
MaxChunks == 2

----------------------------------------------------------------------------
(* Hex strings, bytes and integers *)

Rep(n, c) == [i \in 1..n |-> c]

IsSpace(c) == c = 22
IsHexChar(c) == c <= 21
HexVal(c) == IF c <= 15 THEN c ELSE c - 6

\* bytes.fromhex: ASCII whitespace is skipped between bytes, every byte is two
\* hex digits of either case, anything else is a ValueError.
RECURSIVE FromHex(_)
FromHex(s) ==
    IF s = <<>> THEN [ok |-> TRUE, bytes |-> <<>>]
    ELSE IF IsSpace(Head(s)) THEN FromHex(Tail(s))
    ELSE IF Len(s) < 2 \/ ~IsHexChar(s[1]) \/ ~IsHexChar(s[2])
         THEN [ok |-> FALSE, bytes |-> <<>>]
    ELSE LET r == FromHex(SubSeq(s, 3, Len(s)))
         IN  IF r.ok
             THEN [ok |-> TRUE,
                   bytes |-> <<16 * HexVal(s[1]) + HexVal(s[2])>> \o r.bytes]
             ELSE r

RECURSIVE StripZeros(_)
StripZeros(d) ==
    IF d = <<>> THEN <<>>
    ELSE IF Head(d) = 0 THEN StripZeros(Tail(d))
    ELSE d

RECURSIVE Nibbles(_)
Nibbles(b) ==
    IF b = <<>> THEN <<>>
    ELSE <<Head(b) \div 16, Head(b) % 16>> \o Nibbles(Tail(b))

\* int.from_bytes(md5_bytes, byteorder='big')
IntFromBytes(b) == StripZeros(Nibbles(b))

Zero == <<>>

\* f"{n:032x}": lowercase digits, zero-padded on the left to 32, never cut
Format032x(n) ==
    IF Len(n) >= FormatWidth THEN n ELSE Rep(FormatWidth - Len(n), 0) \o n

\* `if md5_signature and md5_signature != 0`
HasSignatureNever(n) == FALSE
HasSignature(n) == n # Zero

\* `if len(md5_hash) == 32`
ValidLengthAtLeast(h) == Len(h) >= HexLen
ValidLength(h) == Len(h) = HexLen

\* the if/elif chain on bits_per_sample
SupportedDepthAny(b) == TRUE
SupportedDepth(b) == b \in {16, 24, 32}

----------------------------------------------------------------------------
(* set_flac_md5_signature as a function of the file and the environment:   *)
(* saveOk is whether flac_file.save() succeeds.  A failing open or save    *)
(* leaves the file on disk as it was.                                      *)

SetSignatureIgnoringSave(st, valid, h, saveOk) ==
    IF valid /\ ValidLength(h) /\ FromHex(h).ok
    THEN [ret |-> TRUE,
          stored |-> IF saveOk THEN IntFromBytes(FromHex(h).bytes) ELSE st,
          assigned |-> TRUE, saved |-> TRUE]
    ELSE [ret |-> FALSE, stored |-> st, assigned |-> FALSE, saved |-> FALSE]

SetSignature(st, valid, h, saveOk) ==
    LET fail == [ret |-> FALSE, stored |-> st, assigned |-> FALSE, saved |-> FALSE]
    IN  IF ~valid THEN fail                       \* FLAC(file_path) raised
        ELSE IF ValidLength(h)
        THEN LET p == FromHex(h)
             IN  IF ~p.ok THEN fail               \* bytes.fromhex raised
                 ELSE IF saveOk
                 THEN [ret |-> TRUE, stored |-> IntFromBytes(p.bytes),
                       assigned |-> TRUE, saved |-> TRUE]
                 ELSE [ret |-> FALSE, stored |-> st,   \* save() raised
                       assigned |-> TRUE, saved |-> TRUE]
        ELSE fail                                 \* ValueError, caught

----------------------------------------------------------------------------
(* Inputs of the checksum utilities *)

SigFull == Rep(FormatWidth, 10)
SigShort == <<1, 15>>
SigMixed == <<12>> \o Rep(FormatWidth - 1, 3)
StoredInit == {Zero, SigFull, SigShort}
CopySigs == {Zero, SigFull, SigShort, SigMixed}
Depths == {8, 16, 24, 32}
Digests == {Rep(FormatWidth, 7), <<0>> \o Rep(FormatWidth - 1, 13)}
Hashes ==
    { Rep(HexLen, 10),                      \* 32 lowercase digits
      Rep(HexLen, 16),                      \* 32 uppercase digits
      <<0, 0>> \o Rep(HexLen - 2, 5),       \* 32 digits, leading zeros
      Rep(HexLen - 1, 1) \o <<23>>,         \* 32 characters, one no hex digit
      Rep(HexLen - 2, 2) \o <<22, 22>>,     \* 30 digits and two spaces
      <<>>,
      Rep(HexLen - 2, 11),                  \* 30 digits
      Rep(HexLen - 1, 1),                   \* 31 digits
      Rep(HexLen, 1) \o <<22>>,             \* 32 digits and a space
      Rep(HexLen + 2, 4) }                  \* 34 digits

NoTrace == [madeTemp |-> FALSE, ranTool |-> FALSE, toolOk |-> FALSE,
            copySig |-> Zero, readOk |-> FALSE, calledSet |-> FALSE,
            setRet |-> FALSE, assigned |-> FALSE, saved |-> FALSE]
NoPend == [kind |-> "none", hex |-> <<>>]
Returned(op, hex, flag) == [op |-> op, kind |-> "return", hex |-> hex, flag |-> flag]
Raised(op) == [op |-> op, kind |-> "raise", hex |-> <<>>, flag |-> FALSE]

FlacInit ==
    /\ stored \in StoredInit
    /\ flacValid \in BOOLEAN
    /\ bits \in Depths
    /\ fpc = "idle"
    /\ fop = "none"
    /\ hashArg = <<>>
    /\ storedBefore = stored
    /\ tempExists = FALSE
    /\ attempts = 0
    /\ permErrs = 0
    /\ pend = NoPend
    /\ trace = NoTrace
    /\ fres = [op |-> "none", kind |-> "none", hex |-> <<>>, flag |-> FALSE]

\* A call begins: the per-call history starts afresh.
Begin(op, h) ==
    /\ fpc = "idle"
    /\ fop' = op
    /\ hashArg' = h
    /\ storedBefore' = stored
    /\ attempts' = 0
    /\ permErrs' = 0

\* set_flac_md5_signature(file_path, md5_hash), called on its own
SetCall ==
    /\ UNCHANGED <<dlVars, setVars>>
    /\ \E h \in Hashes, saveOk \in BOOLEAN :
           LET r == SetSignature(stored, flacValid, h, saveOk)
           IN  /\ Begin("set", h)
               /\ stored' = r.stored
               /\ trace' = [NoTrace EXCEPT !.assigned = r.assigned, !.saved = r.saved]
               /\ fres' = Returned("set", <<>>, r.ret)
               /\ pend' = NoPend
               /\ UNCHANGED <<flacValid, bits, fpc, tempExists>>

\* fix_flac_md5_signature up to the creation of the temporary file
FixStart ==
    /\ UNCHANGED <<dlVars, setVars>>
    /\ Begin("fix", <<>>)
    /\ pend' = NoPend
    /\ UNCHANGED <<stored, flacValid, bits>>
    /\ IF ~flacValid
       THEN /\ fres' = Raised("fix")
            /\ trace' = NoTrace
            /\ UNCHANGED <<fpc, tempExists>>
       ELSE IF HasSignature(stored)
       THEN /\ fres' = Returned("fix", Format032x(stored), FALSE)
            /\ trace' = NoTrace
            /\ UNCHANGED <<fpc, tempExists>>
       ELSE \E tmpOk \in BOOLEAN :
            IF tmpOk
            THEN /\ tempExists' = TRUE
                 /\ trace' = [NoTrace EXCEPT !.madeTemp = TRUE]
                 /\ fpc' = "fix_body"
                 /\ UNCHANGED fres
            ELSE /\ fres' = Raised("fix")
                 /\ trace' = NoTrace
                 /\ UNCHANGED <<fpc, tempExists>>

\* the try body of fix_flac_md5_signature: transcode, read the copy's
\* checksum, write it into the original
FixBody ==
    /\ UNCHANGED <<dlVars, setVars>>
    /\ fpc = "fix_body"
    /\ fpc' = "cleanup"
    /\ UNCHANGED <<flacValid, bits, fop, hashArg, storedBefore, attempts,
                   permErrs, fres>>
    /\ \E toolOk \in BOOLEAN, left \in BOOLEAN, copyOk \in BOOLEAN,
          sig \in CopySigs, saveOk \in BOOLEAN :
        IF ~toolOk
        THEN /\ tempExists' = left
             /\ pend' = [kind |-> "raise", hex |-> <<>>]
             /\ trace' = [trace EXCEPT !.ranTool = TRUE]
             /\ UNCHANGED stored
        ELSE IF ~copyOk
        THEN /\ pend' = [kind |-> "raise", hex |-> <<>>]
             /\ trace' = [trace EXCEPT !.ranTool = TRUE, !.toolOk = TRUE]
             /\ UNCHANGED <<stored, tempExists>>
        ELSE IF ~HasSignature(sig)
        THEN /\ pend' = [kind |-> "raise", hex |-> <<>>]
             /\ trace' = [trace EXCEPT !.ranTool = TRUE, !.toolOk = TRUE,
                                       !.readOk = TRUE, !.copySig = sig]
             /\ UNCHANGED <<stored, tempExists>>
        ELSE LET md5_hex == Format032x(sig)
                 r == SetSignature(stored, flacValid, md5_hex, saveOk)
             IN  /\ stored' = r.stored
                 /\ pend' = IF r.ret THEN [kind |-> "return", hex |-> md5_hex]
                                     ELSE [kind |-> "raise", hex |-> <<>>]
                 /\ trace' = [trace EXCEPT !.ranTool = TRUE, !.toolOk = TRUE,
                                           !.readOk = TRUE, !.copySig = sig,
                                           !.calledSet = TRUE, !.setRet = r.ret,
                                           !.assigned = r.assigned,
                                           !.saved = r.saved]
                 /\ UNCHANGED tempExists

\* calculate_unencoded_md5 up to the creation of the temporary file
CalcStart ==
    /\ UNCHANGED <<dlVars, setVars>>
    /\ Begin("calc", <<>>)
    /\ pend' = NoPend
    /\ UNCHANGED <<stored, flacValid, bits>>
    /\ IF ~flacValid
       THEN /\ fres' = Raised("calc")
            /\ trace' = NoTrace
            /\ UNCHANGED <<fpc, tempExists>>
       ELSE \E tmpOk \in BOOLEAN :
            IF tmpOk
            THEN /\ tempExists' = TRUE
                 /\ trace' = [NoTrace EXCEPT !.madeTemp = TRUE]
                 /\ fpc' = "calc_body"
                 /\ UNCHANGED fres
            ELSE /\ fres' = Raised("calc")
                 /\ trace' = NoTrace
                 /\ UNCHANGED <<fpc, tempExists>>

\* the try body of calculate_unencoded_md5: pick the sample format, decode
\* to the temporary file, hash it
CalcBody ==
    /\ UNCHANGED <<dlVars, setVars>>
    /\ fpc = "calc_body"
    /\ fpc' = "cleanup"
    /\ UNCHANGED <<stored, flacValid, bits, fop, hashArg, storedBefore,
                   attempts, permErrs, fres>>
    /\ IF ~SupportedDepth(bits)
       THEN /\ pend' = [kind |-> "raise", hex |-> <<>>]
            /\ UNCHANGED <<trace, tempExists>>
       ELSE \E toolOk \in BOOLEAN, left \in BOOLEAN, readOk \in BOOLEAN,
               d \in Digests :
            IF ~toolOk
            THEN /\ tempExists' = left
                 /\ pend' = [kind |-> "raise", hex |-> <<>>]
                 /\ trace' = [trace EXCEPT !.ranTool = TRUE]
            ELSE IF ~readOk
            THEN /\ pend' = [kind |-> "raise", hex |-> <<>>]
                 /\ trace' = [trace EXCEPT !.ranTool = TRUE, !.toolOk = TRUE]
                 /\ UNCHANGED tempExists
            ELSE /\ pend' = [kind |-> "return", hex |-> d]
                 /\ trace' = [trace EXCEPT !.ranTool = TRUE, !.toolOk = TRUE,
                                           !.readOk = TRUE]
                 /\ UNCHANGED tempExists

\* One iteration of `for i in range(3)` in the finally block; e is what
\* os.unlink does when the file exists.  "break" leaves the loop.
CleanupStepNoBreak(exists, e) ==
    IF ~exists THEN [exists |-> FALSE, next |-> "break", perm |-> FALSE]
    ELSE IF e = "ok" THEN [exists |-> FALSE, next |-> "retry", perm |-> FALSE]
    ELSE [exists |-> TRUE, next |-> "retry", perm |-> TRUE]
CleanupStep(exists, e) ==
    IF ~exists THEN [exists |-> FALSE, next |-> "break", perm |-> FALSE]
    ELSE IF e = "ok" THEN [exists |-> FALSE, next |-> "break", perm |-> FALSE]
    ELSE [exists |-> TRUE, next |-> "retry", perm |-> TRUE]

CleanupAttempt ==
    /\ UNCHANGED <<dlVars, setVars>>
    /\ fpc = "cleanup"
    /\ attempts < MaxAttempts
    /\ \E e \in {"ok", "PermissionError"} :
        LET s == CleanupStep(tempExists, e)
        IN  /\ tempExists' = s.exists
            /\ attempts' = attempts + 1
            /\ permErrs' = IF s.perm THEN permErrs + 1 ELSE permErrs
            /\ fpc' = IF s.next = "retry" /\ attempts + 1 < MaxAttempts
                      THEN "cleanup" ELSE "exit"
    /\ UNCHANGED <<stored, flacValid, bits, fop, hashArg, storedBefore, pend,
                   trace, fres>>

\* the finally block is over: the try body's outcome reaches the caller
\* (an exception wrapped by the outer handler)
CallExit ==
    /\ UNCHANGED <<dlVars, setVars>>
    /\ fpc = "exit"
    /\ fpc' = "idle"
    /\ fres' = IF pend.kind = "return" THEN Returned(fop, pend.hex, FALSE)
                                       ELSE Raised(fop)
    /\ UNCHANGED <<stored, flacValid, bits, fop, hashArg, storedBefore,
                   tempExists, attempts, permErrs, pend, trace>>

FlacNext ==
    \/ SetCall
    \/ FixStart
    \/ FixBody
    \/ CalcStart
    \/ CalcBody
    \/ CleanupAttempt
    \/ CallExit

----------------------------------------------------------------------------
(* The downloader.  The content of a file is the sequence of the chunks    *)
(* written to it; the marked contents below are a file that was there      *)
(* before, a resized image and an image whose rewrite failed midway.       *)

OldContent == <<0>>
ResizedContent == <<-1>>
BrokenContent == <<-2>>
Urls == {"u1", "u2"}
ArtworkSettings == {"None", "no_resize", "resize"}

NoLog == [existed |-> FALSE, requested |-> FALSE, hasTotal |-> FALSE,
          opened |-> FALSE, resized |-> FALSE, error |-> "None"]
NoArgs == [url |-> "u1", progress |-> FALSE, art |-> "None"]
DlReturned == [kind |-> "return", exc |-> "None"]
DlRaised(e) == [kind |-> "raise", exc |-> e]

\* `if os.path.isfile(file_location): return None`
SkipDownloadNever(exists) == FALSE
SkipDownload(exists) == exists

\* `if artwork_settings and artwork_settings.get('should_resize', False)`
ShouldResize(art) == art = "resize"

\* Where a KeyboardInterrupt delivered at position pc takes the call:
\* "propagate" leaves download_file at once (lines 211-215 are outside the
\* try), "handler" is the except KeyboardInterrupt clause, and the bare
\* except of the progress bar set-up catches it and goes on to build the
\* fallback bar.
OnInterrupt(pc) ==
    CASE pc = "request" -> "propagate"
      [] pc = "bar_try" -> "bar_fallback"
      [] OTHER -> "handler"

\* `except KeyboardInterrupt`: the only exception the clause catches
CaughtAny(exc) == TRUE
Caught(exc) == exc = "KeyboardInterrupt"

\* silentremove: e is what os.remove does to an existing file
SilentRemove(exists, e) ==
    IF ~exists THEN [exists |-> FALSE, raised |-> FALSE]      \* ENOENT
    ELSE IF e = "ok" THEN [exists |-> FALSE, raised |-> FALSE]
    ELSE [exists |-> TRUE, raised |-> TRUE]

\* the except KeyboardInterrupt clause
Handler(exists, e) ==
    IF exists
    THEN LET r == SilentRemove(exists, e)
         IN  [exists |-> r.exists,
              exc |-> IF r.raised THEN "OSError" ELSE "KeyboardInterrupt"]
    ELSE [exists |-> FALSE, exc |-> "KeyboardInterrupt"]

DlInit ==
    /\ dest \in {[exists |-> FALSE, content |-> <<>>],
                 [exists |-> TRUE, content |-> OldContent]}
    /\ dpc = "idle"
    /\ dargs = NoArgs
    /\ body = <<>>
    /\ dlog = NoLog
    /\ interrupted = FALSE
    /\ dres = [kind |-> "none", exc |-> "None"]
    /\ stale = [on |-> FALSE, content |-> <<>>]

\* the history of failures, when a call ends with log l and file d
StaleAfter(l, d) ==
    IF l.error # "None" /\ l.opened THEN [on |-> TRUE, content |-> d.content]
                                    ELSE stale

\* download_file(url, file_location, ...): the existence check
DlCall ==
    /\ UNCHANGED <<flacVars, setVars>>
    /\ dpc = "idle"
    /\ \E u \in Urls, p \in BOOLEAN, a \in ArtworkSettings :
        dargs' = [url |-> u, progress |-> p, art |-> a]
    /\ dlog' = [NoLog EXCEPT !.existed = dest.exists]
    /\ interrupted' = FALSE
    /\ body' = <<>>
    /\ UNCHANGED <<dest, stale>>
    /\ IF SkipDownload(dest.exists)
       THEN /\ dres' = DlReturned
            /\ UNCHANGED dpc
       ELSE /\ dpc' = "request"
            /\ UNCHANGED dres

\* r_session.get(...) and the content-length header
DlRequest ==
    /\ UNCHANGED <<flacVars, setVars>>
    /\ dpc = "request"
    /\ UNCHANGED <<dest, dargs, interrupted, stale>>
    /\ \E ok \in BOOLEAN, t \in BOOLEAN, n \in 0..MaxChunks :
        IF ok
        THEN /\ body' = [i \in 1..n |-> i]
             /\ dlog' = [dlog EXCEPT !.requested = TRUE, !.hasTotal = t]
             /\ dpc' = "open"
             /\ UNCHANGED dres
        ELSE /\ dlog' = [dlog EXCEPT !.requested = TRUE,
                                     !.error = "ConnectionError"]
             /\ dres' = DlRaised("ConnectionError")
             /\ dpc' = "idle"
             /\ UNCHANGED body

\* open(file_location, 'wb')
DlOpen ==
    /\ UNCHANGED <<flacVars, setVars>>
    /\ dpc = "open"
    /\ UNCHANGED <<dargs, body, interrupted, stale>>
    /\ \E ok \in BOOLEAN :
        IF ok
        THEN /\ dest' = [exists |-> TRUE, content |-> <<>>]
             /\ dlog' = [dlog EXCEPT !.opened = TRUE]
             /\ dpc' = IF dargs.progress /\ dlog.hasTotal THEN "bar_try"
                                                          ELSE "stream"
             /\ UNCHANGED dres
        ELSE /\ dlog' = [dlog EXCEPT !.error = "OSError"]
             /\ dres' = DlRaised("OSError")
             /\ dpc' = "idle"
             /\ UNCHANGED dest

\* the try of the progress bar set-up: the bar sized to the terminal on nt,
\* otherwise (a bare raise, or get_terminal_size failing) the bare except
DlBarTry ==
    /\ UNCHANGED <<flacVars, setVars>>
    /\ dpc = "bar_try"
    /\ \E nt \in BOOLEAN : dpc' = IF nt THEN "stream" ELSE "bar_fallback"
    /\ UNCHANGED <<dest, dargs, body, dlog, interrupted, dres, stale>>

\* the bare except: the bar without a width
DlBarFallback ==
    /\ UNCHANGED <<flacVars, setVars>>
    /\ dpc = "bar_fallback"
    /\ dpc' = "stream"
    /\ UNCHANGED <<dest, dargs, body, dlog, interrupted, dres, stale>>

\* one chunk of r.iter_content written, the stream failing, or its end
DlStream ==
    /\ UNCHANGED <<flacVars, setVars>>
    /\ dpc = "stream"
    /\ UNCHANGED <<dargs, interrupted>>
    /\ IF body # <<>>
       THEN \E ok \in BOOLEAN :
            IF ok
            THEN /\ dest' = [dest EXCEPT !.content = Append(@, Head(body))]
                 /\ body' = Tail(body)
                 /\ UNCHANGED <<dpc, dres, dlog, stale>>
            ELSE /\ dlog' = [dlog EXCEPT !.error = "ConnectionError"]
                 /\ UNCHANGED <<dest, body>>
                 /\ IF Caught("ConnectionError")
                    THEN /\ dpc' = "handler"
                         /\ UNCHANGED <<dres, stale>>
                    ELSE /\ dpc' = "idle"
                         /\ dres' = DlRaised("ConnectionError")
                         /\ stale' = StaleAfter(dlog', dest')
       ELSE /\ UNCHANGED <<dest, body, dlog, stale>>
            /\ IF ShouldResize(dargs.art)
               THEN /\ dpc' = "resize"
                    /\ UNCHANGED dres
               ELSE /\ dpc' = "idle"
                    /\ dres' = DlReturned

\* Image.open, resize and save over the downloaded file
DlResize ==
    /\ UNCHANGED <<flacVars, setVars>>
    /\ dpc = "resize"
    /\ UNCHANGED <<dargs, body, interrupted>>
    /\ \E o \in {"ok", "open_error", "save_error"} :
        /\ dlog' = [dlog EXCEPT !.resized = (o = "ok"),
                                !.error = IF o = "ok" THEN @ ELSE "ImageError"]
        /\ dest' = [dest EXCEPT !.content =
                        CASE o = "ok" -> ResizedContent
                          [] o = "save_error" -> BrokenContent
                          [] OTHER -> @]
        /\ IF o = "ok"
           THEN /\ dpc' = "idle"
                /\ dres' = DlReturned
                /\ UNCHANGED stale
           ELSE IF Caught("ImageError")
           THEN /\ dpc' = "handler"
                /\ UNCHANGED <<dres, stale>>
           ELSE /\ dpc' = "idle"
                /\ dres' = DlRaised("ImageError")
                /\ stale' = StaleAfter(dlog', dest')

\* a KeyboardInterrupt is delivered while the call is running
DlInterrupt ==
    /\ UNCHANGED <<flacVars, setVars>>
    /\ dpc \in {"request", "open", "bar_try", "bar_fallback", "stream", "resize"}
    /\ interrupted' = TRUE
    /\ UNCHANGED <<dest, dargs, body, dlog, stale>>
    /\ LET to == OnInterrupt(dpc)
       IN  IF to = "propagate"
           THEN /\ dpc' = "idle"
                /\ dres' = DlRaised("KeyboardInterrupt")
           ELSE /\ dpc' = to
                /\ UNCHANGED dres

\* except KeyboardInterrupt: remove the file if it is there, raise
DlHandler ==
    /\ UNCHANGED <<flacVars, setVars>>
    /\ dpc = "handler"
    /\ \E e \in {"ok", "EACCES"} :
        LET r == Handler(dest.exists, e)
        IN  /\ dest' = IF r.exists THEN dest
                       ELSE [exists |-> FALSE, content |-> <<>>]
            /\ dres' = DlRaised(r.exc)
            /\ dlog' = [dlog EXCEPT !.error =
                            IF r.exc = "OSError" THEN "OSError" ELSE @]
    /\ stale' = StaleAfter(dlog', dest')
    /\ dpc' = "idle"
    /\ UNCHANGED <<dargs, body, interrupted>>

DlNext ==
    \/ DlCall
    \/ DlRequest
    \/ DlOpen
    \/ DlBarTry
    \/ DlBarFallback
    \/ DlStream
    \/ DlResize
    \/ DlInterrupt
    \/ DlHandler

----------------------------------------------------------------------------
(* The temporary settings store.  The blob maps the modules it knows to    *)
(* their module_settings: the name of the selected session, the sessions,  *)
(* and (extra) the keys a global_mode write put beside them.  A session is *)
(* a dict from keys to values; a value is an atom (None or a string) or a  *)
(* dict from sub-keys to atoms.  NoKey is the argument None.               *)

NoKey == "<None>"
Modules == {"m1", "m2"}
Keys == {"", "k"}
SubKeys == {"", "s"}
Atoms == {"None", "v1"}
EmptyDict == [x \in {} |-> "None"]

AtomVal(a) == [isDict |-> FALSE, atom |-> a, sub |-> EmptyDict]
DictVal(d) == [isDict |-> TRUE, atom |-> "None", sub |-> d]
NoneVal == AtomVal("None")
Put(d, k, v) == (k :> v) @@ d

\* values a caller writes
WrittenVals == {AtomVal(a) : a \in Atoms} \cup {DictVal(EmptyDict)}

\* Python truthiness of a root_setting / setting argument
Truthy(k) == k \notin {NoKey, ""}

\* The session both functions navigate to.  kind "none" is None (the module
\* is not in the blob), "keyerror" is the selected session missing from the
\* sessions; truthy is `bool(session)`.
ResolveEmptyIsTruthy(b, m, g) ==
    IF m \notin DOMAIN b
    THEN [kind |-> "none", d |-> EmptyDict, truthy |-> FALSE]
    ELSE IF g
    THEN [kind |-> "dict", d |-> b[m].extra, truthy |-> TRUE]
    ELSE IF b[m].selected \notin DOMAIN b[m].sessions
    THEN [kind |-> "keyerror", d |-> EmptyDict, truthy |-> FALSE]
    ELSE [kind |-> "dict", d |-> b[m].sessions[b[m].selected], truthy |-> TRUE]
Resolve(b, m, g) ==
    IF m \notin DOMAIN b
    THEN [kind |-> "none", d |-> EmptyDict, truthy |-> FALSE]
    ELSE IF g
    THEN [kind |-> "dict", d |-> b[m].extra, truthy |-> TRUE]
    ELSE IF b[m].selected \notin DOMAIN b[m].sessions
    THEN [kind |-> "keyerror", d |-> EmptyDict, truthy |-> FALSE]
    ELSE LET d == b[m].sessions[b[m].selected]
         IN  [kind |-> "dict", d |-> d, truthy |-> DOMAIN d # {}]

SReturn(what, v) == [kind |-> "return", what |-> what, val |-> v]
SRaise == [kind |-> "raise", what |-> "none", val |-> NoneVal]
\* a returned value; Python's None is one value, stored or not
SValue(v) == IF v = NoneVal THEN SReturn("none", NoneVal) ELSE SReturn("value", v)

\* read_temporary_setting: what it returns; "session" is the whole session
ReadSetting(b, m, root, setting, g) ==
    LET r == Resolve(b, m, g)
        d == r.d
    IN  IF r.kind = "keyerror" THEN SRaise
        ELSE IF r.truthy /\ Truthy(root)
        THEN IF Truthy(setting)
             THEN IF root \notin DOMAIN d THEN SValue(NoneVal)
                  ELSE IF d[root].isDict
                  THEN IF setting \in DOMAIN d[root].sub
                       THEN SValue(AtomVal(d[root].sub[setting]))
                       ELSE SValue(NoneVal)
                  ELSE IF d[root].atom = "None"
                  THEN SRaise                  \* `setting in None`
                  ELSE SValue(NoneVal)         \* no substring of the string
             ELSE IF root \in DOMAIN d THEN SValue(d[root]) ELSE SValue(NoneVal)
        ELSE IF Truthy(root) /\ ~r.truthy THEN SRaise
        ELSE IF r.kind = "none" THEN SReturn("none", NoneVal)
        ELSE SReturn("session", NoneVal)

\* the blob with session d put back where Resolve found it
Store(b, m, g, d) ==
    IF g THEN [b EXCEPT ![m].extra = d]
    ELSE [b EXCEPT ![m].sessions[b[m].selected] = d]

\* set_temporary_setting: whether it returns and the blob it leaves on disk
WriteSetting(b, m, root, setting, value, g) ==
    LET r == Resolve(b, m, g)
        d == r.d
    IN  IF r.kind # "dict" \/ ~r.truthy THEN [kind |-> "raise", blob |-> b]
        ELSE IF Truthy(setting)
        THEN IF root \notin DOMAIN d \/ ~d[root].isDict
             THEN [kind |-> "raise", blob |-> b]   \* KeyError, TypeError
             ELSE [kind |-> "return",
                   blob |-> Store(b, m, g,
                       Put(d, root, DictVal(Put(d[root].sub, setting, value.atom))))]
        ELSE [kind |-> "return", blob |-> Store(b, m, g, Put(d, root, value))]

ModuleSettings(sel, d) ==
    [selected |-> sel, sessions |-> ("a" :> d), extra |-> EmptyDict]

\* "m2" is never in the blob; "m1" starts with a selected session that is
\* empty, filled or missing
SetInit ==
    /\ blob \in { ("m1" :> ModuleSettings("a", EmptyDict)),
                  ("m1" :> ModuleSettings("a", ("k" :> AtomVal("v1")))),
                  ("m1" :> ModuleSettings("a", ("k" :> DictVal(EmptyDict)))),
                  ("m1" :> ModuleSettings("b", ("k" :> AtomVal("v1")))) }
    /\ sres = [op |-> "none", m |-> "m1", root |-> NoKey, sub |-> NoKey,
               value |-> NoneVal, g |-> FALSE, out |-> SRaise]

ReadCall ==
    /\ UNCHANGED <<flacVars, dlVars>>
    /\ \E m \in Modules, root \in Keys \cup {NoKey}, setting \in SubKeys \cup {NoKey},
          g \in BOOLEAN :
           /\ sres' = [op |-> "read", m |-> m, root |-> root, sub |-> setting,
                       value |-> NoneVal, g |-> g,
                       out |-> ReadSetting(blob, m, root, setting, g)]
           /\ UNCHANGED blob

SetCallSetting ==
    /\ UNCHANGED <<flacVars, dlVars>>
    /\ \E m \in Modules, root \in Keys, setting \in SubKeys \cup {NoKey},
          value \in WrittenVals, g \in BOOLEAN :
           /\ Truthy(setting) => ~value.isDict
           /\ LET w == WriteSetting(blob, m, root, setting, value, g)
              IN  /\ blob' = w.blob
                  /\ sres' = [op |-> "set", m |-> m, root |-> root, sub |-> setting,
                              value |-> value, g |-> g,
                              out |-> IF w.kind = "return"
                                      THEN SReturn("none", NoneVal) ELSE SRaise]

SettingsNext ==
    \/ ReadCall
    \/ SetCallSetting

----------------------------------------------------------------------------
(* Specifications.  The three components share no state and no call goes  *)
(* from one to another, so each is explored by a specification of its own  *)
(* with the other two at rest; Spec is their interleaving.                 *)

Init == FlacInit /\ DlInit /\ SetInit
Next == FlacNext \/ DlNext \/ SettingsNext

FlacRest ==
    /\ stored = Zero /\ flacValid = TRUE /\ bits = 16 /\ fpc = "idle"
    /\ fop = "none" /\ hashArg = <<>> /\ storedBefore = Zero
    /\ tempExists = FALSE /\ attempts = 0 /\ permErrs = 0 /\ pend = NoPend
    /\ trace = NoTrace
    /\ fres = [op |-> "none", kind |-> "none", hex |-> <<>>, flag |-> FALSE]
DlRest ==
    /\ dest = [exists |-> FALSE, content |-> <<>>] /\ dpc = "idle"
    /\ dargs = NoArgs /\ body = <<>> /\ dlog = NoLog /\ interrupted = FALSE
    /\ dres = [kind |-> "none", exc |-> "None"]
    /\ stale = [on |-> FALSE, content |-> <<>>]
SetRest ==
    /\ blob = ("m1" :> ModuleSettings("a", EmptyDict))
    /\ sres = [op |-> "none", m |-> "m1", root |-> NoKey, sub |-> NoKey,
               value |-> NoneVal, g |-> FALSE, out |-> SRaise]

InitFlac == FlacInit /\ DlRest /\ SetRest
InitDownload == FlacRest /\ DlInit /\ SetRest
InitSettings == FlacRest /\ DlRest /\ SetInit

SpecFlac == InitFlac /\ [][FlacNext]_vars
SpecDownload == InitDownload /\ [][DlNext]_vars
SpecSettings == InitSettings /\ [][SettingsNext]_vars
Spec == Init /\ [][Next]_vars

----------------------------------------------------------------------------
(* Properties *)

FlacCallDone(op) == fpc = "idle" /\ fop = op
IsLowerHex32(h) == Len(h) = 32 /\ \A i \in 1..Len(h) : h[i] \in 0..15

\* C1: set_flac_md5_signature with an md5_hash whose length is not 32
\* returns False (no exception escapes) and leaves the file unmodified:
\* the stored checksum is not assigned and save() is not invoked.
C1_InvalidLengthFails ==
    (FlacCallDone("set") /\ Len(hashArg) # 32) =>
        /\ fres = Returned("set", <<>>, FALSE)
        /\ ~trace.assigned
        /\ ~trace.saved
        /\ stored = storedBefore

\* a 33-character string that bytes.fromhex would accept was refused on a
\* readable file
C1_Witness ==
    /\ FlacCallDone("set")
    /\ flacValid
    /\ hashArg = Rep(HexLen, 1) \o <<22>>
    /\ fres.flag = FALSE

C8_CalcFailsClosed ==
    /\ fop = "calc" =>
          /\ stored = storedBefore
          /\ ~trace.calledSet
          /\ ~trace.assigned
          /\ ~trace.saved
    /\ FlacCallDone("calc") =>
          /\ fres.kind \in {"return", "raise"}
          /\ fres.kind = "return" =>
                /\ flacValid
                /\ bits \in {16, 24, 32}
                /\ trace.toolOk
                /\ trace.readOk
          /\ ~(flacValid /\ bits \in {16, 24, 32} /\ trace.toolOk /\ trace.readOk)
                => fres.kind = "raise"

\* a 24-bit file was hashed
C8_Witness ==
    /\ FlacCallDone("calc")
    /\ bits = 24
    /\ fres.kind = "return"
    /\ fres.hex \in Digests

C2_InterruptLeavesNoFile ==
    (dpc = "idle" /\ interrupted /\ ~dlog.existed) =>
        /\ dres.kind = "raise"
        /\ dres.exc = "KeyboardInterrupt" => ~dest.exists

\* C3: when the destination file exists, download_file returns None and
\* does nothing else: no request, no open, no resize, whatever its
\* arguments; the file is as it was.
C3_ExistingIsNoOp ==
    [][ (dpc = "idle" /\ dest.exists) =>
            /\ dpc' = "idle"
            /\ dres' = DlReturned
            /\ dest' = dest
            /\ ~dlog'.requested
            /\ ~dlog'.opened
            /\ ~dlog'.resized ]_vars

\* a call asking for a resize found the old file and returned
C3_Witness ==
    /\ dpc = "idle"
    /\ dlog.existed
    /\ dargs.art = "resize"
    /\ dargs.progress
    /\ dres = DlReturned
    /\ dest = [exists |-> TRUE, content |-> OldContent]

\* C10: once a download_file call has failed with an error other than a
\* KeyboardInterrupt after opening the destination, the file it left is
\* still there, and every later call for that destination returns None
\* without fetching: the content is never replaced.
C10_PartialFileStays ==
    /\ (dpc = "idle" /\ dlog.opened /\ dlog.error # "None") => dest.exists
    /\ stale.on =>
          /\ dest = [exists |-> TRUE, content |-> stale.content]
          /\ dpc = "idle"
          /\ dres.kind = "return" =>
                (dlog.existed /\ ~dlog.requested /\ ~dlog.opened)

\* the stream broke after the first of two chunks, and a later call
\* returned None beside the one-chunk file
C10_Witness ==
    /\ stale.on
    /\ stale.content = <<1>>
    /\ dres = DlReturned
    /\ dlog.existed
    /\ dest.content = <<1>>

\* a module named in a call has no session state: it is not in the blob,
\* or its selected session is empty
NoSessionState(b, m) ==
    \/ m \notin DOMAIN b
    \/ /\ b[m].selected \in DOMAIN b[m].sessions
       /\ DOMAIN b[m].sessions[b[m].selected] = {}

\* C4 (as claimed): after set_temporary_setting(location, M, K, value=V) or
\* set_temporary_setting(location, M, K, S, V) returns, the read with the
\* same module, key, sub-key and global_mode returns exactly V.
C4_RoundTrip ==
    (sres.op = "set" /\ sres.out.kind = "return") =>
        ReadSetting(blob, sres.m, sres.root, sres.sub, sres.g) = SValue(sres.value)

C7_NoSession ==
    \/ sres.m \notin DOMAIN blob
    \/ /\ ~sres.g
       /\ blob[sres.m].selected \in DOMAIN blob[sres.m].sessions
       /\ DOMAIN blob[sres.m].sessions[blob[sres.m].selected] = {}

====
